---- MODULE Spec2Model ----
(***************************************************************************)
(* Model of the request/reply routes of the Apollo back end:               *)
(*   src/api/middleware/requests/index.js   validateRequestReplies         *)
(*   src/api/requests/requestRouter.js      POST /:id, GET /:id,           *)
(*                                          GET /:id/questions,            *)
(*                                          GET /:id/replies               *)
(* One HTTP request is in flight at a time.  The persistence store         *)
(* (requestModel) is an external collaborator: each of its promises        *)
(* resolves with a value drawn from a small set, or rejects.               *)
(***************************************************************************)
EXTENDS Integers, Sequences, FiniteSets, TLC

\* ------------------------------------------------------------------ bounds
MaxBatch == 2
MaxReplies == 2
MaxWho == 2

\* --------------------------------------------------------------- JS values
\* Scalar JavaScript values are atoms; ToBoolean of an atom is Truthy.
Undefined == "undefined"
Null == "null"
EmptyString == ""
Falsy == {Undefined, Null, EmptyString}
Truthy(v) == v \notin Falsy

\* Structured values (req.body.replies, a store result) carry a type tag.
JsUndefined == [t |-> "undefined", items |-> <<>>]
JsNull == [t |-> "null", items |-> <<>>]
JsEmptyString == [t |-> "string", items |-> <<>>]
JsObject == [t |-> "object", items |-> <<>>]
JsArray(s) == [t |-> "array", items |-> s]
\* ToBoolean of a structured value: arrays and objects are truthy, even empty.
ToBoolean(v) == v.t \in {"object", "array"}
\* Whether for...of can iterate the value; a string iterates its characters.
Iterable(v) == v.t \in {"array", "string"}

RECURSIVE SeqsUpTo(_, _)
SeqsUpTo(S, n) ==
  IF n = 0 THEN {<<>>}
  ELSE LET shorter == SeqsUpTo(S, n - 1)
       IN shorter \cup {Append(s, x) : s \in {t \in shorter : Len(t) = n - 1}, x \in S}

\* ------------------------------------------------------------------ inputs
RequestIds == {"r1", "r2"}
TopicIds == {"t1", "t2"}
ProfileIds == {"A", "B"}
QuestionIdValues == {Undefined, "q1", "q2"}
ContentValues == {Undefined, EmptyString, "text"}

\* One element of req.body.replies: an object, or null (destructuring null throws).
NullEntry == [kind |-> "null", question_id |-> Undefined, content |-> Undefined]
ObjectEntries ==
  {[kind |-> "object", question_id |-> q, content |-> c] :
     q \in QuestionIdValues, c \in ContentValues}
Entries == ObjectEntries \cup {NullEntry}

\* req.body.replies: absent, a falsy non-array, a truthy non-iterable, or an array.
RepliesValues ==
  {JsUndefined, JsNull, JsEmptyString, JsObject}
    \cup {JsArray(s) : s \in SeqsUpTo(Entries, MaxBatch)}

\* What getRequestDetailed resolves with: a record, whose id is falsy when the
\* request does not exist.
RequestRecord(id, topic) == [id |-> id, topic_id |-> topic]
DetailedResults(id) ==
  {RequestRecord(id, t) : t \in TopicIds} \cup {RequestRecord(Undefined, Undefined)}

\* What addRequestReplies resolves with: the stored replies, or nothing.
AddResults ==
  {JsUndefined, JsNull, JsArray(<<>>), JsArray(<<"reply1">>), JsArray(<<"reply1", "reply2">>)}

\* What getMemberRepliedStatus and getRequestQuestions resolve with.
StatusResults ==
  {<<>>, <<[id |-> "A", has_replied |-> TRUE]>>,
   <<[id |-> "A", has_replied |-> TRUE], [id |-> "B", has_replied |-> FALSE]>>}
QuestionResults ==
  {<<>>, <<[id |-> "q1", content |-> "text"]>>,
   <<[id |-> "q1", content |-> "text"], [id |-> "q2", content |-> "text"]>>}

\* A flat reply as getRequestReplies returns it: the reply's own fields and the
\* author's denormalised profile_id, name and avatarUrl.
NameValues == {Undefined, EmptyString, "Alice", "Bob"}
AvatarValues == {Undefined, "urlA"}
ReplyPayloads ==
  {[id |-> "1", posted_at |-> "d1", iteration_id |-> "r1", question_id |-> "q1",
    question |-> "Q1", content |-> "x"],
   [id |-> "2", posted_at |-> "d2", iteration_id |-> "r1", question_id |-> "q2",
    question |-> "Q2", content |-> "y"]}
FlatReply(p, profile, name, avatar) ==
  [id |-> p.id, posted_at |-> p.posted_at, iteration_id |-> p.iteration_id,
   question_id |-> p.question_id, question |-> p.question, content |-> p.content,
   profile_id |-> profile, name |-> name, avatarUrl |-> avatar]
FlatReplies ==
  {FlatReply(p, profile, name, avatar) :
     p \in ReplyPayloads, profile \in ProfileIds, name \in NameValues,
     avatar \in AvatarValues}
RepliesResults == SeqsUpTo(FlatReplies, MaxReplies)
WhoResults == SeqsUpTo(ProfileIds, MaxWho)

\* --------------------------------------------------------------- responses
NoBody == [kind |-> "none"]
ErrorBody(msg) == [kind |-> "error", error |-> msg]
MessageBody(msg) == [kind |-> "message", message |-> msg]
JsonBody(v) == [kind |-> "json", value |-> v]

MsgNoRequest == "Could not find a request with that id"
MsgNoReplies == "Must include replies"
MsgNoQuestionId == "Every reply must include a question id"
MsgNoContent == "Every reply must include a content value"
MsgInternal == "We are sorry, Internal server error."
MsgNoRequestGet == "Could not find request with that id"

\* ------------------------------------------------------------------- state
VARIABLES
  pc,          \* where the request in flight is
  req,         \* the request: route, params.id, body.replies, profile.id, body.profile_id
  resStatus,   \* res.status(...), 0 while no response has been sent
  resBody,     \* res.json(...)
  responses,   \* how many times a response was sent
  storeCalls,  \* the store calls made for this request, in order
  nextCalled,  \* how many times the middleware called next()
  examined,    \* how many entries of replies the validator's loop destructured
  storeFailed, \* whether a store promise rejected
  detailed,    \* what getRequestDetailed resolved with
  added,       \* what addRequestReplies resolved with
  flatReplies, \* what getRequestReplies resolved with
  whoHasReplied \* what getWhoHasReplied resolved with

vars ==
  <<pc, req, resStatus, resBody, responses, storeCalls, nextCalled, examined,
    storeFailed, detailed, added, flatReplies, whoHasReplied>>

NoRequest ==
  [route |-> "none", id |-> Undefined, replies |-> JsUndefined,
   profile_id |-> Undefined, body_profile_id |-> Undefined]
NoDetailed == RequestRecord(Undefined, Undefined)

Call(fn, args) == [fn |-> fn, args |-> args]

\* Each behaviour follows one request from its arrival to its end: the handlers
\* keep no state between requests.
Idle == pc = "idle"

Init ==
  /\ pc = "idle"
  /\ req = NoRequest
  /\ resStatus = 0
  /\ resBody = NoBody
  /\ responses = 0
  /\ storeCalls = <<>>
  /\ nextCalled = 0
  /\ examined = 0
  /\ storeFailed = FALSE
  /\ detailed = NoDetailed
  /\ added = JsUndefined
  /\ flatReplies = <<>>
  /\ whoHasReplied = <<>>

\* --------------------------------------------------------------- validator
\* The validator's outcome: the response it sends (status 0: none), whether it
\* calls next(), whether it throws, and how many entries its loop destructured.
Outcome(status, msg, next, threw, n) ==
  [status |-> status, error |-> msg, next |-> next, threw |-> threw, examined |-> n]

\* Mutant: the loop tests content before question_id.
RECURSIVE ValidateEntries_ContentFirst(_, _)
ValidateEntries_ContentFirst(items, i) ==
  IF i > Len(items) THEN Outcome(0, "", TRUE, FALSE, Len(items))
  ELSE IF items[i].kind = "null" THEN Outcome(0, "", FALSE, TRUE, i)
  ELSE IF ~Truthy(items[i].content) THEN Outcome(400, MsgNoContent, FALSE, FALSE, i)
  ELSE IF ~Truthy(items[i].question_id) THEN Outcome(400, MsgNoQuestionId, FALSE, FALSE, i)
  ELSE ValidateEntries_ContentFirst(items, i + 1)

\* Mutant: the loop also rejects a question_id seen earlier in the batch.
RECURSIVE ValidateEntries_RejectsDuplicates(_, _)
ValidateEntries_RejectsDuplicates(items, i) ==
  IF i > Len(items) THEN Outcome(0, "", TRUE, FALSE, Len(items))
  ELSE IF items[i].kind = "null" THEN Outcome(0, "", FALSE, TRUE, i)
  ELSE IF ~Truthy(items[i].question_id) THEN Outcome(400, MsgNoQuestionId, FALSE, FALSE, i)
  ELSE IF \E j \in 1..(i - 1) : items[j].question_id = items[i].question_id
    THEN Outcome(400, MsgNoQuestionId, FALSE, FALSE, i)
  ELSE IF ~Truthy(items[i].content) THEN Outcome(400, MsgNoContent, FALSE, FALSE, i)
  ELSE ValidateEntries_RejectsDuplicates(items, i + 1)

\* for (const { question_id, content } of replies) { ... }
RECURSIVE ValidateEntries(_, _)
ValidateEntries(items, i) ==
  IF i > Len(items) THEN Outcome(0, "", TRUE, FALSE, Len(items))
  ELSE IF items[i].kind = "null" THEN Outcome(0, "", FALSE, TRUE, i)
  ELSE IF ~Truthy(items[i].question_id) THEN Outcome(400, MsgNoQuestionId, FALSE, FALSE, i)
  ELSE IF ~Truthy(items[i].content) THEN Outcome(400, MsgNoContent, FALSE, FALSE, i)
  ELSE ValidateEntries(items, i + 1)

\* Mutant: the not-found branch answers 404 without returning.
validateRequestReplies_NoReturnOn404(request, replies) ==
  LET rest ==
        IF ~ToBoolean(replies) THEN Outcome(400, MsgNoReplies, FALSE, FALSE, 0)
        ELSE IF ~Iterable(replies) THEN Outcome(0, "", FALSE, TRUE, 0)
        ELSE ValidateEntries(replies.items, 1)
  IN IF ~Truthy(request.id)
     THEN Outcome(404, MsgNoRequest, rest.next, rest.threw, rest.examined)
     ELSE rest

\* Mutant: replies is tested before the request.
validateRequestReplies_RepliesFirst(request, replies) ==
  IF ~ToBoolean(replies) THEN Outcome(400, MsgNoReplies, FALSE, FALSE, 0)
  ELSE IF ~Truthy(request.id) THEN Outcome(404, MsgNoRequest, FALSE, FALSE, 0)
  ELSE IF ~Iterable(replies) THEN Outcome(0, "", FALSE, TRUE, 0)
  ELSE ValidateEntries(replies.items, 1)

\* Mutant: the test of replies is missing.
validateRequestReplies_NoRepliesCheck(request, replies) ==
  IF ~Truthy(request.id) THEN Outcome(404, MsgNoRequest, FALSE, FALSE, 0)
  ELSE IF ~Iterable(replies) THEN Outcome(0, "", FALSE, TRUE, 0)
  ELSE ValidateEntries(replies.items, 1)

\* The body of validateRequestReplies after the await.
validateRequestReplies(request, replies) ==
  IF ~Truthy(request.id) THEN Outcome(404, MsgNoRequest, FALSE, FALSE, 0)
  ELSE IF ~ToBoolean(replies) THEN Outcome(400, MsgNoReplies, FALSE, FALSE, 0)
  ELSE IF ~Iterable(replies) THEN Outcome(0, "", FALSE, TRUE, 0)
  ELSE ValidateEntries(replies.items, 1)

\* ----------------------------------------------------------------- POST /:id
\* Mutant: the profile id is read from the body.
AddArgs_BodyProfile(r) == <<r.id, r.body_profile_id, r.replies>>

\* The arguments of the handler's store write.
AddArgs(r) == <<r.id, r.profile_id, r.replies>>

\* A POST arrives: the middleware reads params and body and awaits the store read.
PostStart ==
  /\ Idle
  /\ \E id \in RequestIds, replies \in RepliesValues, p \in ProfileIds,
        bp \in ProfileIds \cup {Undefined} :
       req' = [route |-> "POST", id |-> id, replies |-> replies,
               profile_id |-> p, body_profile_id |-> bp]
  /\ pc' = "validate_await"
  /\ storeCalls' = <<Call("getRequestDetailed", <<req'.id>>)>>
  /\ resStatus' = 0
  /\ resBody' = NoBody
  /\ responses' = 0
  /\ nextCalled' = 0
  /\ examined' = 0
  /\ storeFailed' = FALSE
  /\ UNCHANGED <<detailed, added, flatReplies, whoHasReplied>>

\* getRequestDetailed resolves: the validator decides, and on next() the handler
\* runs up to its store write.
PostValidated ==
  /\ pc = "validate_await"
  /\ \E request \in DetailedResults(req.id) :
       LET v == validateRequestReplies(request, req.replies) IN
         /\ detailed' = request
         /\ examined' = v.examined
         /\ resStatus' = v.status
         /\ resBody' = IF v.status # 0 THEN ErrorBody(v.error) ELSE NoBody
         /\ responses' = IF v.status # 0 THEN 1 ELSE 0
         /\ nextCalled' = IF v.next THEN 1 ELSE 0
         /\ storeCalls' =
              IF v.next THEN Append(storeCalls, Call("addRequestReplies", AddArgs(req)))
              ELSE storeCalls
         /\ pc' = IF v.next THEN "add_await"
                  ELSE IF v.status # 0 THEN "done"
                  ELSE "hung"
  /\ UNCHANGED <<req, storeFailed, added, flatReplies, whoHasReplied>>

\* getRequestDetailed rejects: the async middleware's promise rejects, nothing
\* catches it, and no response is sent.
PostValidateRejected ==
  /\ pc = "validate_await"
  /\ pc' = "hung"
  /\ storeFailed' = TRUE
  /\ UNCHANGED <<req, resStatus, resBody, responses, storeCalls, nextCalled,
                 examined, detailed, added, flatReplies, whoHasReplied>>

\* addRequestReplies resolves: the then-callback answers.
PostAddResolved ==
  /\ pc = "add_await"
  /\ \E requestInfo \in AddResults :
       /\ added' = requestInfo
       /\ IF ToBoolean(requestInfo)
          THEN /\ resStatus' = 200
               /\ resBody' = JsonBody(requestInfo)
          ELSE /\ resStatus' = 500
               /\ resBody' = MessageBody(MsgInternal)
  /\ responses' = responses + 1
  /\ pc' = "done"
  /\ UNCHANGED <<req, storeCalls, nextCalled, examined, storeFailed, detailed,
                 flatReplies, whoHasReplied>>

\* addRequestReplies rejects: the chain has no catch, and no response is sent.
PostAddRejected ==
  /\ pc = "add_await"
  /\ pc' = "hung"
  /\ storeFailed' = TRUE
  /\ UNCHANGED <<req, resStatus, resBody, responses, storeCalls, nextCalled,
                 examined, detailed, added, flatReplies, whoHasReplied>>

\* ------------------------------------------------------------------ GET /:id
\* A request arrives on a GET route, which issues its first store read.
GetStart(route, fn, await) ==
  /\ Idle
  /\ \E id \in RequestIds :
       req' = [route |-> route, id |-> id, replies |-> JsUndefined,
               profile_id |-> Undefined, body_profile_id |-> Undefined]
  /\ pc' = await
  /\ storeCalls' = <<Call(fn, <<req'.id>>)>>
  /\ resStatus' = 0
  /\ resBody' = NoBody
  /\ responses' = 0
  /\ nextCalled' = 0
  /\ examined' = 0
  /\ storeFailed' = FALSE
  /\ UNCHANGED <<detailed, added, flatReplies, whoHasReplied>>

\* A store promise of a GET route rejects: the chain's catch answers 500.
GetRejected(awaits) ==
  /\ pc \in awaits
  /\ storeFailed' = TRUE
  /\ resStatus' = 500
  /\ resBody' = MessageBody(MsgInternal)
  /\ responses' = responses + 1
  /\ pc' = "done"
  /\ UNCHANGED <<req, storeCalls, nextCalled, examined, detailed, added, flatReplies,
                 whoHasReplied>>

GetIdStart == GetStart("GET /:id", "getRequestDetailed", "detail_await")

\* getRequestDetailed resolves: 404 for a falsy id, else the statuses are fetched.
GetIdDetailed ==
  /\ pc = "detail_await"
  /\ \E requestInfo \in DetailedResults(req.id) :
       /\ detailed' = requestInfo
       /\ IF Truthy(requestInfo.id)
          THEN /\ storeCalls' =
                    Append(storeCalls,
                           Call("getMemberRepliedStatus", <<req.id, requestInfo.topic_id>>))
               /\ pc' = "status_await"
               /\ UNCHANGED <<resStatus, resBody, responses>>
          ELSE /\ resStatus' = 404
               /\ resBody' = MessageBody(MsgNoRequestGet)
               /\ responses' = responses + 1
               /\ pc' = "done"
               /\ UNCHANGED storeCalls
  /\ UNCHANGED <<req, nextCalled, examined, storeFailed, added, flatReplies, whoHasReplied>>

\* getMemberRepliedStatus resolves: the request is answered with its statuses.
GetIdStatuses ==
  /\ pc = "status_await"
  /\ \E replyStatuses \in StatusResults :
       resBody' = [kind |-> "request", id |-> detailed.id, topic_id |-> detailed.topic_id,
                   reply_statuses |-> replyStatuses]
  /\ resStatus' = 200
  /\ responses' = responses + 1
  /\ pc' = "done"
  /\ UNCHANGED <<req, storeCalls, nextCalled, examined, storeFailed, detailed, added,
                 flatReplies, whoHasReplied>>

GetIdRejected == GetRejected({"detail_await", "status_await"})

\* -------------------------------------------------------- GET /:id/questions
GetQuestionsStart == GetStart("GET /:id/questions", "getRequestQuestions", "questions_await")

GetQuestionsResolved ==
  /\ pc = "questions_await"
  /\ \E questions \in QuestionResults : resBody' = JsonBody(JsArray(questions))
  /\ resStatus' = 200
  /\ responses' = responses + 1
  /\ pc' = "done"
  /\ UNCHANGED <<req, storeCalls, nextCalled, examined, storeFailed, detailed, added,
                 flatReplies, whoHasReplied>>

GetQuestionsRejected == GetRejected({"questions_await"})

\* ---------------------------------------------------------- GET /:id/replies
\* Mutant: the map callback returns the reply as it is.
MapReply_KeepsAll(r) == r

\* What the map callback returns for one reply.
MapReply(r) ==
  [id |-> r.id, posted_at |-> r.posted_at, iteration_id |-> r.iteration_id,
   question_id |-> r.question_id, question |-> r.question, content |-> r.content]

\* replies.filter((reply) => reply.profile_id === curr)
FilterReplies(replies, curr) ==
  SelectSeq(replies, LAMBDA reply : reply.profile_id = curr)

\* Mutant: only undefined counts as not yet set.
SetOnce_OnlyUndefined(current, value) == IF current = Undefined THEN value ELSE current

\* if (!username) username = name;  and the same for userAvatarUrl
SetOnce(current, value) == IF ~Truthy(current) THEN value ELSE current

\* .map(...) over the filtered replies, in order; the callback also sets the
\* closure's username and userAvatarUrl.
RECURSIVE MapFound(_, _, _)
MapFound(found, i, acc) ==
  IF i > Len(found) THEN acc
  ELSE MapFound(found, i + 1,
                [username |-> SetOnce(acc.username, found[i].name),
                 userAvatarUrl |-> SetOnce(acc.userAvatarUrl, found[i].avatarUrl),
                 foundReplies |-> Append(acc.foundReplies, MapReply(found[i]))])

\* One step of the reduce: the group pushed for member curr.
Group(replies, curr) ==
  LET m == MapFound(FilterReplies(replies, curr), 1,
                    [username |-> Undefined, userAvatarUrl |-> Undefined,
                     foundReplies |-> <<>>])
  IN [profile_id |-> curr, name |-> m.username, avatarUrl |-> m.userAvatarUrl,
      replies |-> m.foundReplies]

\* whoHasReplied.reduce((acc, curr) => { ...; acc.push(group); return acc }, [])
RECURSIVE Reduce(_, _, _, _)
Reduce(replies, who, i, acc) ==
  IF i > Len(who) THEN acc
  ELSE Reduce(replies, who, i + 1, Append(acc, Group(replies, who[i])))

\* Mutant: members without replies get no group.
filteredReplies_SkipsSilent(replies, who) ==
  SelectSeq(Reduce(replies, who, 1, <<>>), LAMBDA g : g.replies # <<>>)

filteredReplies(replies, who) == Reduce(replies, who, 1, <<>>)

GetRepliesStart == GetStart("GET /:id/replies", "getRequestReplies", "replies_await")

\* getRequestReplies resolves: the callback awaits getWhoHasReplied.
GetRepliesResolved ==
  /\ pc = "replies_await"
  /\ \E replies \in RepliesResults : flatReplies' = replies
  /\ storeCalls' = Append(storeCalls, Call("getWhoHasReplied", <<req.id>>))
  /\ pc' = "who_await"
  /\ UNCHANGED <<req, resStatus, resBody, responses, nextCalled, examined,
                 storeFailed, detailed, added, whoHasReplied>>

\* getWhoHasReplied resolves: the replies are grouped and sent.
GetWhoResolved ==
  /\ pc = "who_await"
  /\ \E who \in WhoResults :
       /\ whoHasReplied' = who
       /\ resBody' = [kind |-> "request_replies",
                      request_replies |-> filteredReplies(flatReplies, who)]
  /\ resStatus' = 200
  /\ responses' = responses + 1
  /\ pc' = "done"
  /\ UNCHANGED <<req, storeCalls, nextCalled, examined, storeFailed, detailed, added,
                 flatReplies>>

GetRepliesRejected == GetRejected({"replies_await", "who_await"})

Next ==
  \/ PostStart
  \/ PostValidated
  \/ PostValidateRejected
  \/ PostAddResolved
  \/ PostAddRejected
  \/ GetIdStart
  \/ GetIdDetailed
  \/ GetIdStatuses
  \/ GetIdRejected
  \/ GetQuestionsStart
  \/ GetQuestionsResolved
  \/ GetQuestionsRejected
  \/ GetRepliesStart
  \/ GetRepliesResolved
  \/ GetWhoResolved
  \/ GetRepliesRejected

Spec == Init /\ [][Next]_vars
\* ------------------------------------------------------------------ claims
IsPost == req.route = "POST"
IsGetReplies == req.route = "GET /:id/replies"

\* The store calls made so far that name fn.
CallsOf(fn) == {i \in 1..Len(storeCalls) : storeCalls[i].fn = fn}

\* The validator has run to its end: the store read resolved and the code after
\* the await was executed.
Validated ==
  /\ IsPost
  /\ pc \in {"add_await", "done", "hung"}
  /\ ~(storeFailed /\ nextCalled = 0)

RequestExists == Truthy(detailed.id)

\* An entry that has both fields.
Complete(e) == e.kind = "object" /\ Truthy(e.question_id) /\ Truthy(e.content)
\* An object entry that lacks one of them.
Lacking(e) == e.kind = "object" /\ ~(Truthy(e.question_id) /\ Truthy(e.content))

\* The validator answered with this status and error message and did not go on.
Rejected(status, msg) ==
  /\ pc = "done"
  /\ resStatus = status
  /\ resBody.kind = "error"
  /\ resBody.error = msg
  /\ responses = 1
  /\ nextCalled = 0

\* C1: on POST /:id the store write addRequestReplies happens only after the
\* validator has called next(): when the validator answers 404 or 400 the write
\* is never made, and the only store call the validator makes is one
\* getRequestDetailed for the request's id.
C1_WriteOnlyAfterAccept ==
  (IsPost /\ pc # "idle") =>
    /\ storeCalls[1] = Call("getRequestDetailed", <<req.id>>)
    /\ CallsOf("getRequestDetailed") = {1}
    /\ \A i \in 2..Len(storeCalls) : storeCalls[i].fn = "addRequestReplies"
    /\ (CallsOf("addRequestReplies") # {} => nextCalled = 1)
    /\ (nextCalled = 0 => Len(storeCalls) = 1)
    /\ (resStatus \in {400, 404} => CallsOf("addRequestReplies") = {} /\ nextCalled = 0)

C1_Witness ==
  /\ Validated
  /\ pc = "done"
  /\ resStatus = 400
  /\ req.replies.t = "array"
  /\ Len(storeCalls) = 1

\* C2: when the store's record has a falsy id the validator answers 404
\* 'Could not find a request with that id' and does not call next(), whatever
\* req.body.replies is.
C2_NotFoundWhateverBody ==
  (Validated /\ ~RequestExists) => Rejected(404, MsgNoRequest) /\ examined = 0

C2_Witness ==
  /\ Validated
  /\ ~RequestExists
  /\ req.replies.t = "array"
  /\ Len(req.replies.items) = 2
  /\ Lacking(req.replies.items[1])
  /\ req.replies.items[2].kind = "null"
  /\ resStatus = 404

\* C3: for an existing request and an array of replies, the first entry that
\* lacks question_id or content decides the outcome: 400 with the message of
\* the missing field, question_id before content, and the loop stops at that
\* entry, so that nothing after it (not even a null entry) changes the result.
C3_FailFastInOrder ==
  (Validated /\ RequestExists /\ req.replies.t = "array") =>
    \A k \in 1..Len(req.replies.items) :
      (/\ Lacking(req.replies.items[k])
       /\ \A j \in 1..(k - 1) : Complete(req.replies.items[j]))
      => /\ Rejected(400, IF ~Truthy(req.replies.items[k].question_id)
                          THEN MsgNoQuestionId ELSE MsgNoContent)
         /\ examined = k

C3_Witness ==
  /\ Validated
  /\ RequestExists
  /\ req.replies.t = "array"
  /\ Len(req.replies.items) = 2
  /\ Lacking(req.replies.items[1])
  /\ Truthy(req.replies.items[1].question_id)
  /\ req.replies.items[2].kind = "null"
  /\ resStatus = 400
  /\ examined = 1

\* C4: for an existing request, a body without replies (undefined) is answered
\* 400 'Must include replies' and next() is not called.
C4_MissingReplies ==
  (Validated /\ RequestExists /\ req.replies.t = "undefined")
    => Rejected(400, MsgNoReplies) /\ CallsOf("addRequestReplies") = {}

C4_Witness ==
  /\ Validated
  /\ RequestExists
  /\ req.replies.t = "undefined"
  /\ resStatus = 400

\* C5: for an existing request, an array of replies whose entries all have a
\* question_id and a content is accepted: next() is called exactly once and the
\* validator sends no response, duplicate question_ids or not.
C5_CompleteBatchAccepted ==
  (/\ Validated
   /\ RequestExists
   /\ req.replies.t = "array"
   /\ \A k \in 1..Len(req.replies.items) : Complete(req.replies.items[k]))
  => /\ nextCalled = 1
     /\ examined = Len(req.replies.items)
     /\ (pc = "add_await" => resStatus = 0 /\ responses = 0 /\ resBody = NoBody)
     /\ responses <= 1
     /\ resBody.kind # "error"
     /\ resStatus \notin {400, 404}

C5_Witness ==
  /\ Validated
  /\ RequestExists
  /\ pc = "add_await"
  /\ req.replies.t = "array"
  /\ Len(req.replies.items) = 2
  /\ Complete(req.replies.items[1])
  /\ Complete(req.replies.items[2])
  /\ req.replies.items[1].question_id = req.replies.items[2].question_id
  /\ nextCalled = 1

\* C6: no store failure is swallowed: on every route, once a store promise has
\* rejected and the request has come to its end, the caller has received the
\* generic failure response (500, 'We are sorry, Internal server error.').
C6_StoreFailureAnswered ==
  (storeFailed /\ pc \in {"done", "hung"}) =>
    /\ resStatus = 500
    /\ resBody.kind = "message"
    /\ resBody.message = MsgInternal

\* The groups sent by GET /:id/replies.
Answered == IsGetReplies /\ pc = "done" /\ resStatus = 200 /\ resBody.kind = "request_replies"
Groups == resBody.request_replies
\* The positions in flatReplies of the replies of member m, in order of position.
Matching(m) == {i \in 1..Len(flatReplies) : flatReplies[i].profile_id = m}

\* C7: the aggregation emits one group per element of whoHasReplied, in the
\* same order and with that element as profile_id; a member without replies
\* gets a group with no replies and name and avatarUrl undefined, and an empty
\* whoHasReplied gives an empty list.
C7_OneGroupPerMember ==
  Answered =>
    /\ Len(Groups) = Len(whoHasReplied)
    /\ \A i \in 1..Len(whoHasReplied) :
         /\ Groups[i].profile_id = whoHasReplied[i]
         /\ DOMAIN Groups[i] = {"profile_id", "name", "avatarUrl", "replies"}
         /\ (Matching(whoHasReplied[i]) = {} =>
               /\ Groups[i].replies = <<>>
               /\ Groups[i].name = Undefined
               /\ Groups[i].avatarUrl = Undefined)
    /\ (whoHasReplied = <<>> => Groups = <<>>)

C7_Witness ==
  /\ Answered
  /\ Len(whoHasReplied) = 2
  /\ Matching(whoHasReplied[1]) = {}
  /\ Matching(whoHasReplied[2]) # {}
  /\ Len(Groups) = 2

Min(S) == CHOOSE x \in S : \A y \in S : x <= y
Max(S) == CHOOSE x \in S : \A y \in S : y <= x

\* C8 as claimed: a group's name and avatarUrl are those of the first reply of
\* its member in flatReplies, also when they are empty or undefined there.
C8_FirstReplyOnly ==
  Answered =>
    \A i \in 1..Len(whoHasReplied) :
      LET m == Matching(whoHasReplied[i]) IN
        m # {} =>
          /\ Groups[i].name = flatReplies[Min(m)].name
          /\ Groups[i].avatarUrl = flatReplies[Min(m)].avatarUrl

\* The value a group shows for a field: that of the first reply of the member
\* where it is truthy; the last reply's when none is; undefined without replies.
Shown(m, field) ==
  LET truthy == {i \in m : Truthy(flatReplies[i][field])} IN
    IF truthy # {} THEN flatReplies[Min(truthy)][field]
    ELSE IF m # {} THEN flatReplies[Max(m)][field]
    ELSE Undefined

\* C8 (amended): a group's name is that of the first reply of its member whose
\* name is truthy, and no later reply influences it; when no reply of the
\* member has a truthy name it is the (falsy) name of the member's last reply.
\* The same holds, independently, for avatarUrl.
C8_FirstTruthyReply ==
  Answered =>
    \A i \in 1..Len(whoHasReplied) :
      /\ Groups[i].name = Shown(Matching(whoHasReplied[i]), "name")
      /\ Groups[i].avatarUrl = Shown(Matching(whoHasReplied[i]), "avatarUrl")

C8_Witness ==
  /\ Answered
  /\ Len(whoHasReplied) >= 1
  /\ Matching(whoHasReplied[1]) = {1, 2}
  /\ flatReplies[1].name = EmptyString
  /\ flatReplies[2].name = "Bob"
  /\ flatReplies[1].avatarUrl = "urlA"
  /\ flatReplies[2].avatarUrl = Undefined
  /\ Groups[1].name = "Bob"
  /\ Groups[1].avatarUrl = "urlA"

ReplyFields == {"id", "posted_at", "iteration_id", "question_id", "question", "content"}

\* The n-th smallest element of a set of positions.
RECURSIVE Nth(_, _)
Nth(S, n) == IF n = 1 THEN Min(S) ELSE Nth(S \ {Min(S)}, n - 1)

\* C9: a group's replies are the replies of flatReplies with the group's
\* profile_id, in the order of flatReplies, each reduced to id, posted_at,
\* iteration_id, question_id, question and content.
C9_RepliesAreTheMembersOwn ==
  Answered =>
    \A i \in 1..Len(whoHasReplied) :
      LET m == Matching(whoHasReplied[i]) IN
        /\ Len(Groups[i].replies) = Cardinality(m)
        /\ \A n \in 1..Len(Groups[i].replies) :
             /\ DOMAIN Groups[i].replies[n] = ReplyFields
             /\ \A f \in ReplyFields :
                  Groups[i].replies[n][f] = flatReplies[Nth(m, n)][f]

C9_Witness ==
  /\ Answered
  /\ Len(flatReplies) = 2
  /\ Len(whoHasReplied) = 2
  /\ flatReplies[1].profile_id # flatReplies[2].profile_id
  /\ whoHasReplied[1] = flatReplies[2].profile_id
  /\ whoHasReplied[2] = flatReplies[1].profile_id
  /\ Len(Groups[1].replies) = 1
  /\ Groups[1].replies[1].id = flatReplies[2].id

\* C10: once the validator has accepted, POST /:id calls addRequestReplies
\* exactly once with the request id, req.profile.id and the replies as
\* submitted; a truthy result is sent back unchanged with 200, a falsy one
\* gives the generic 500.
C10_WriteAndPassThrough ==
  (IsPost /\ nextCalled = 1) =>
    /\ CallsOf("addRequestReplies") = {2}
    /\ storeCalls[2].args = <<req.id, req.profile_id, req.replies>>
    /\ (pc = "done" =>
          /\ responses = 1
          /\ IF ToBoolean(added)
             THEN resStatus = 200 /\ resBody.kind = "json" /\ resBody.value = added
             ELSE /\ resStatus = 500
                  /\ resBody.kind = "message"
                  /\ resBody.message = MsgInternal)

C10_Witness ==
  /\ IsPost
  /\ nextCalled = 1
  /\ pc = "done"
  /\ resStatus = 200
  /\ added = JsArray(<<"reply1">>)
  /\ req.body_profile_id \notin {Undefined, req.profile_id}
  /\ Len(req.replies.items) = 2
====
